---- MODULE Spec2Model ----
(***************************************************************************)
(* A model of the wrapped compact board of battlesnake-game-types:         *)
(* the cell encoding, CellIndex arithmetic, board construction from a wire *)
(* game, the wrapped neighbour computation, the per-snake step evaluator,  *)
(* the board step applier and the simulation driver.                       *)
(*                                                                         *)
(* src/src/wrapped_compact_representation/mod.rs declares `pub mod eval;`  *)
(* and calls generate_state / evaluate_moves_with_state, but eval.rs and   *)
(* the Move type are not among the source files: those definitions follow  *)
(* sections 3.1 and 4.5-4.7 of the specification and are marked so.        *)
(***************************************************************************)
EXTENDS Integers, Sequences, FiniteSets, TLC

VARIABLES game,     \* the wire game handed to convert_from_game
          board,    \* the current CellBoard (a record), or NoBoard
          phase,    \* "input" | "board" | "error" | "panic" | "query" | "returned"
          prev,     \* the board the last step was applied to, or NoBoard
          moves,    \* the move combination applied by the last step
          turn,     \* number of steps taken since construction
          hist,     \* bookkeeping of the run of steps (rollout tracking)
          query,    \* the arguments of a call of a pure function or of the driver
          ret       \* what that call returned

vars == <<game, board, phase, prev, moves, turn, hist, query, ret>>

(***************************************************************************)
(* Bounds of the model.                                                    *)
(***************************************************************************)
\* sqrt(BOARD_SIZE): the side of the compile-time capacity of the board type
Width == 3
\* the MAX_SNAKES parameter of the board type
MAX_SNAKES == 3
\* steps explored after construction
MaxTurns == 3
\* distinct cells of a snake body in the enumerated wire games
MaxBodyCells == 3
\* widths of the CellIndex round trip
MaxIndexWidth == 17
\* operations applied to one cell
MaxCellOps == 3
\* widths and snake counts of the descriptions handed to to_best_cell_board
MaxDimension == 51
MaxGameSnakes == 17

BOARD_SIZE == Width * Width

(***************************************************************************)
(* Program constants.                                                      *)
(***************************************************************************)
SNAKE_HEAD == 6
SNAKE_BODY_PIECE == 1
DOUBLE_STACKED_PIECE == 2
TRIPLE_STACKED_PIECE == 3
FOOD == 4
EMPTY == 5
KIND_MASK == 7
IS_HAZARD == 16
TRIPLE_STACK == 3
DOUBLE_STACK == 2
\* hazard damage when the ruleset has no settings
DefaultHazardDamage == 15
\* the side of the largest board whose cell numbers are u8 (CellBoard8Snakes15x15)
LargestU8Width == 15
\* health after eating (section 4.5 step 5)
MaxHealth == 100

NoBoard == [none |-> TRUE]
NoGame == [none |-> TRUE]
NoQuery == [none |-> TRUE]
NoHist == [none |-> TRUE]
\* Option::None of a CellIndex or a SnakeId
None == 0 - 1

Range(f) == {f[i] : i \in DOMAIN f}

Min(a, b) == IF a < b THEN a ELSE b
Max(a, b) == IF a > b THEN a ELSE b

(***************************************************************************)
(* Moves and positions.                                                    *)
(***************************************************************************)
Up == "Up"
Down == "Down"
Left == "Left"
Right == "Right"

\* Move::all(): the canonical order
MoveAll == <<Up, Down, Left, Right>>
Moves == {Up, Down, Left, Right}

\* Move::to_vector
to_vector(m) ==
  CASE m = Up -> [x |-> 0, y |-> 1]
    [] m = Down -> [x |-> 0, y |-> 0 - 1]
    [] m = Left -> [x |-> 0 - 1, y |-> 0]
    [] m = Right -> [x |-> 1, y |-> 0]

\* Move::as_index
as_index(m) == CHOOSE i \in 1..4 : MoveAll[i] = m

Pos(px, py) == [x |-> px, y |-> py]

\* Position::add_vec
add_vec(p, v) == [x |-> p.x + v.x, y |-> p.y + v.y]

(***************************************************************************)
(* CellNum (u8) and CellIndex.                                             *)
(***************************************************************************)
\* `i as u8`
from_i32(i) == i % 256

\* `i as i8`
ToI8(i) == ((i + 128) % 256) - 128

\* CellIndex::new(pos, width)
CellIndexNew(pos, width) == from_i32(pos.y * width + pos.x)

\* CellIndex::into_position(width)
into_position(ci, width) == [x |-> ci % width, y |-> ci \div width]

\* the cell-number types
CellNums == {"u8", "u16"}

\* `i as u16`
from_i32_u16(i) == i % 65536

\* CellIndex::<T>::new(pos, width) for the cell-number type T
CellIndexNewOf(T, pos, width) ==
  IF T = "u16" THEN from_i32_u16(pos.y * width + pos.x) ELSE from_i32(pos.y * width + pos.x)

(***************************************************************************)
(* The vectorised wrapped neighbour computation (neighbors.rs).            *)
(***************************************************************************)
\* Move::all_simd(): the move vectors laid out x, y per move, in Move::all() order
all_simd ==
  [i \in 1..8 |-> IF i % 2 = 1 THEN to_vector(MoveAll[(i + 1) \div 2]).x
                               ELSE to_vector(MoveAll[i \div 2]).y]

possible_moves_fixed_swapped(width, pos) ==
  LET head_pos == into_position(pos, width)
      nb(m) == LET p == add_vec(head_pos, to_vector(m))
               IN  CellIndexNew(Pos(p.x % width, p.y % width), width)
  IN  <<  <<Up, nb(Up)>>, <<Down, nb(Down)>>, <<Left, nb(Right)>>, <<Right, nb(Left)>> >>

possible_moves_fixed(width, pos) ==
  LET width_i == ToI8(width)
      head_pos == into_position(pos, width)
      move_simd == all_simd
      current_pos_simd ==
        [i \in 1..8 |-> IF i % 2 = 1 THEN ToI8(head_pos.x) ELSE ToI8(head_pos.y)]
      new_pos_simd == [i \in 1..8 |-> ToI8(current_pos_simd[i] + move_simd[i])]
      negative_overflow_mask == [i \in 1..8 |-> new_pos_simd[i] = 0 - 1]
      positive_overflow_mask == [i \in 1..8 |-> new_pos_simd[i] = width_i]
      sel_neg == [i \in 1..8 |->
                    IF negative_overflow_mask[i] THEN ToI8(width_i - 1) ELSE new_pos_simd[i]]
      sel_pos == [i \in 1..8 |-> IF positive_overflow_mask[i] THEN 0 ELSE sel_neg[i]]
      cast == [i \in 1..8 |-> sel_pos[i] % 256]
      x_values == [k \in 1..4 |-> cast[2 * k - 1]]
      y_values == [k \in 1..4 |-> (cast[2 * k] * width) % 256]
      indices == [k \in 1..4 |-> (x_values[k] + y_values[k]) % 256]
  IN  [k \in 1..4 |-> <<MoveAll[k], from_i32(indices[k])>>]

neighbors_fixed(width, pos) ==
  LET pm == possible_moves_fixed(width, pos)
  IN  [k \in 1..4 |-> pm[k][2]]

(***************************************************************************)
(* Cell: flags (3 bits of kind, the hazard bit), the snake id, the link.   *)
(***************************************************************************)
Kind(c) == c.flags % (KIND_MASK + 1)

\* flags & !KIND_MASK
ClearKind(flags) == flags - (flags % (KIND_MASK + 1))

is_empty(c) == Kind(c) = EMPTY
is_food(c) == Kind(c) = FOOD
is_hazard(c) == (c.flags \div IS_HAZARD) % 2 # 0
is_snake_body_piece(c) == Kind(c) = SNAKE_BODY_PIECE
is_double_stacked_piece(c) == Kind(c) = DOUBLE_STACKED_PIECE
is_triple_stacked_piece(c) == Kind(c) = TRIPLE_STACKED_PIECE
is_body_segment(c) ==
  is_snake_body_piece(c) \/ is_double_stacked_piece(c) \/ is_triple_stacked_piece(c)
is_head(c) == Kind(c) = SNAKE_HEAD \/ is_triple_stacked_piece(c)
is_stacked(c) == is_double_stacked_piece(c) \/ is_triple_stacked_piece(c)
is_body(c) == Kind(c) = SNAKE_BODY_PIECE \/ Kind(c) = DOUBLE_STACKED_PIECE

get_tail_position(c, ci) ==
  IF is_head(c) THEN (IF is_triple_stacked_piece(c) THEN ci ELSE c.idx) ELSE None

\* get_next_index answering for a head cell as well
get_next_index_of_any_segment(c) ==
  IF is_snake_body_piece(c) \/ is_double_stacked_piece(c) \/ Kind(c) = SNAKE_HEAD
    THEN c.idx ELSE None

get_next_index(c) ==
  IF is_snake_body_piece(c) \/ is_double_stacked_piece(c) THEN c.idx ELSE None

cell_get_snake_id(c) == IF is_body_segment(c) \/ is_head(c) THEN c.id ELSE None

set_hazard(c) == [c EXCEPT !.flags = IF is_hazard(c) THEN c.flags ELSE c.flags + IS_HAZARD]
clear_hazard(c) == [c EXCEPT !.flags = IF is_hazard(c) THEN c.flags - IS_HAZARD ELSE c.flags]

\* remove resetting the whole flags byte
remove_all_flags(c) == [flags |-> EMPTY, id |-> 0, idx |-> from_i32(0)]

\* resets a cell to empty preserving the cell's hazard status
remove(c) == [flags |-> ClearKind(c.flags) + EMPTY, id |-> 0, idx |-> from_i32(0)]

remove_snake(c) == IF is_head(c) \/ is_body_segment(c) THEN remove(c) ELSE c

empty == [flags |-> EMPTY, id |-> 0, idx |-> from_i32(0)]
make_snake_head(sid, tail_index) == [flags |-> SNAKE_HEAD, id |-> sid, idx |-> tail_index]
make_body_piece(sid, next_index) == [flags |-> SNAKE_BODY_PIECE, id |-> sid, idx |-> next_index]
make_double_stacked_piece(sid, next_index) ==
  [flags |-> DOUBLE_STACKED_PIECE, id |-> sid, idx |-> next_index]
make_triple_stacked_piece(sid) ==
  [flags |-> TRIPLE_STACKED_PIECE, id |-> sid, idx |-> from_i32(0)]

set_food(c) == [c EXCEPT !.flags = ClearKind(c.flags) + FOOD]
\* set_head leaving the id field of the cell
set_head_keeps_id(c, sid, tail_index) ==
  [flags |-> ClearKind(c.flags) + SNAKE_HEAD, id |-> c.id, idx |-> tail_index]

set_head(c, sid, tail_index) ==
  [flags |-> ClearKind(c.flags) + SNAKE_HEAD, id |-> sid, idx |-> tail_index]
\* set_body_piece leaving the link field of the cell
set_body_piece_keeps_idx(c, sid, next_pos) ==
  [flags |-> ClearKind(c.flags) + SNAKE_BODY_PIECE, id |-> sid, idx |-> c.idx]

set_body_piece(c, sid, next_pos) ==
  [flags |-> ClearKind(c.flags) + SNAKE_BODY_PIECE, id |-> sid, idx |-> next_pos]
\* set_double_stacked writing an ordinary body piece
set_double_stacked_unstacked(c, sid, next_pos) ==
  [flags |-> ClearKind(c.flags) + SNAKE_BODY_PIECE, id |-> sid, idx |-> next_pos]

set_double_stacked(c, sid, next_pos) ==
  [flags |-> ClearKind(c.flags) + DOUBLE_STACKED_PIECE, id |-> sid, idx |-> next_pos]

(***************************************************************************)
(* CellBoard: [hazard_damage, cells, healths, heads, lengths,              *)
(* actual_width]; cells are indexed 0..BOARD_SIZE-1, snakes                *)
(* 0..MAX_SNAKES-1.                                                        *)
(***************************************************************************)
CellIds == 0..(BOARD_SIZE - 1)
SnakeIds == 0..(MAX_SNAKES - 1)

\* an index the cell array has; indexing outside it panics
InBounds(ci) == ci \in CellIds

get_cell(b, ci) == b.cells[ci]
actual_height(b) == b.actual_width

off_board(b, position) ==
  \/ position.x < 0
  \/ position.x >= b.actual_width
  \/ position.y < 0
  \/ position.y >= actual_height(b)

\* NeighborDeterminableGame::possible_moves of the scalar CellBoard: the
\* closure of the first map for one move; off is the negation of what the
\* debug_assert! tests
possible_move(b, pos, mv) ==
  LET width == b.actual_width
      head_pos == into_position(pos, width)
      new_head == add_vec(head_pos, to_vector(mv))
      ci == CellIndexNew(new_head, width)
  IN  [mv |-> mv, new_head |-> new_head, ci |-> ci, off |-> off_board(b, new_head)]

\* the value collected when no assertion stops the call
possible_moves(b, pos) ==
  [k \in 1..Len(MoveAll) |-> <<MoveAll[k], possible_move(b, pos, MoveAll[k]).ci>>]

\* some debug_assert!(!self.off_board(new_head)) of the call fails
possible_moves_assert_fails(b, pos) ==
  \E k \in 1..Len(MoveAll) : possible_move(b, pos, MoveAll[k]).off

neighbors(b, pos) == [k \in 1..Len(MoveAll) |-> possible_moves(b, pos)[k][2]]

cell_remove(b, ci) == [b EXCEPT !.cells[ci] = remove(get_cell(b, ci))]
cell_remove_snake(b, ci) == [b EXCEPT !.cells[ci] = remove_snake(get_cell(b, ci))]
set_cell_body_piece(b, ci, sid, next_id) ==
  [b EXCEPT !.cells[ci] = set_body_piece(get_cell(b, ci), sid, next_id)]
\* set_cell_double_stacked writing an unstacked body piece
set_cell_double_stacked_single(b, ci, sid, next_id) ==
  [b EXCEPT !.cells[ci] = set_body_piece(get_cell(b, ci), sid, next_id)]
set_cell_double_stacked(b, ci, sid, next_id) ==
  [b EXCEPT !.cells[ci] = set_double_stacked(get_cell(b, ci), sid, next_id)]
set_cell_head(b, ci, sid, next_id) ==
  [b EXCEPT !.cells[ci] = set_head(get_cell(b, ci), sid, next_id)]

get_snake_id_at(b, ci) == cell_get_snake_id(get_cell(b, ci))
get_health(b, sid) == b.healths[sid]
get_length(b, sid) == b.lengths[sid]
get_head_as_native_position(b, sid) == b.heads[sid]
get_head_as_position(b, sid) == into_position(b.heads[sid], b.actual_width)

\* get_snake_ids: the slots with more than 0 health
get_snake_ids(b) == {s \in SnakeIds : b.healths[s] > 0}

\* kill that leaves the health
kill_keeps_health(b, sid) ==
  [b EXCEPT !.heads[sid] = from_i32(0), !.lengths[sid] = 0]

kill(b, sid) ==
  [b EXCEPT !.healths[sid] = 0, !.heads[sid] = from_i32(0), !.lengths[sid] = 0]

\* the loop of kill_and_remove left after its first cell
RemoveChain_tail_only(b, current_index, fuel) ==
  IF current_index = None \/ fuel = 0 THEN b ELSE cell_remove(b, current_index)

\* the loop of kill_and_remove; fuel bounds the walk of the model (a chain
\* with a cycle never ends in the program)
RECURSIVE RemoveChain(_, _, _)
RemoveChain(b, current_index, fuel) ==
  IF current_index = None \/ fuel = 0 THEN b
  ELSE RemoveChain(cell_remove(b, current_index),
                   get_next_index(get_cell(b, current_index)), fuel - 1)

\* kill_and_remove without the walk that clears the cells
kill_without_remove(b, sid) == kill(b, sid)

kill_and_remove(b, sid) ==
  LET head == b.heads[sid]
      current_index == get_tail_position(get_cell(b, head), head)
  IN  kill(RemoveChain(b, current_index, BOARD_SIZE + 1), sid)

\* the loop `while let Some(c) = cur { ..; cur = get_cell(c).get_next_index() }`
\* of get_snake_body_vec and kill_and_remove, with the cells visited so far:
\* it ends at None; cycle says that it came back to a visited cell (the
\* program loops for ever), oob that the index is outside the cell array
RECURSIVE link_walk(_, _, _)
link_walk(b, cur, visited) ==
  IF cur = None THEN [cells |-> visited, cycle |-> FALSE, oob |-> FALSE]
  ELSE IF ~InBounds(cur) THEN [cells |-> visited, cycle |-> FALSE, oob |-> TRUE]
  ELSE IF cur \in Range(visited) THEN [cells |-> visited, cycle |-> TRUE, oob |-> FALSE]
  ELSE link_walk(b, get_next_index(get_cell(b, cur)), Append(visited, cur))

\* the loop of get_snake_body_vec with each cell pushed once
RECURSIVE BodyWalk_unstacked(_, _, _, _)
BodyWalk_unstacked(b, cur, body, fuel) ==
  IF cur = None \/ fuel = 0 THEN body
  ELSE BodyWalk_unstacked(b, get_next_index(get_cell(b, cur)), Append(body, cur), fuel - 1)

\* the loop of get_snake_body_vec: the cells from the tail to the head, each
\* pushed as often as it is stacked
RECURSIVE BodyWalk(_, _, _, _)
BodyWalk(b, cur, body, fuel) ==
  IF cur = None \/ fuel = 0 THEN body
  ELSE LET c == get_cell(b, cur)
           b1 == Append(body, cur)
           b2 == IF is_double_stacked_piece(c) THEN Append(b1, cur) ELSE b1
           b3 == IF is_triple_stacked_piece(c) THEN Append(Append(b2, cur), cur) ELSE b2
       IN  BodyWalk(b, get_next_index(c), b3, fuel - 1)

\* body.reverse() left out
Reverse_skipped(s) == s

Reverse(s) == [i \in 1..Len(s) |-> s[Len(s) + 1 - i]]

get_snake_body_vec(b, sid) ==
  LET head == get_head_as_native_position(b, sid)
      cur == get_tail_position(get_cell(b, head), head)
  IN  Reverse(BodyWalk(b, cur, <<>>, BOARD_SIZE + 1))

\* is_over without the test of slot 0
is_over_count_only(b) == Cardinality({s \in SnakeIds : b.healths[s] # 0}) <= 1

\* is_over: slot 0 is dead, or at most one health is not 0
is_over(b) ==
  b.healths[0] = 0 \/ Cardinality({s \in SnakeIds : b.healths[s] # 0}) <= 1

\* the filter_map of get_winner: the slots of health other than 0, from
\* slot id on, in slot order
RECURSIVE winning_ids(_, _)
winning_ids(b, id) ==
  IF id >= MAX_SNAKES THEN <<>>
  ELSE (IF b.healths[id] # 0 THEN <<id>> ELSE <<>>) \o winning_ids(b, id + 1)

\* get_winner returning the last of winning_ids
get_winner_last(b) ==
  IF is_over(b)
    THEN IF winning_ids(b, 0) = <<>> THEN None
         ELSE winning_ids(b, 0)[Len(winning_ids(b, 0))]
    ELSE None

\* get_winner: Some(winning_ids[0]) when the game is over and a snake is
\* alive, otherwise None
get_winner(b) ==
  IF is_over(b)
    THEN IF winning_ids(b, 0) = <<>> THEN None ELSE winning_ids(b, 0)[1]
    ELSE None

\* alive_snake_count
alive_snake_count(b) == Cardinality({s \in SnakeIds : b.healths[s] # 0})


(***************************************************************************)
(* Board construction.  A wire game is                                     *)
(*   [width, height, food, hazards, snakes, hazard_damage_per_turn]        *)
(* with snakes a sequence of [id, health, head, body]; `id` is the slot    *)
(* the SnakeIDMap gives the snake, hazard_damage_per_turn is None when the *)
(* ruleset has no settings.                                                *)
(***************************************************************************)
\* itertools counts(): how often pos occurs in body
Counts(body, pos) == Cardinality({i \in 1..Len(body) : body[i] = pos})

\* itertools unique(): the first occurrences, in order
RECURSIVE UniqueAcc(_, _, _)
UniqueAcc(body, i, acc) ==
  IF i > Len(body) THEN acc
  ELSE UniqueAcc(body, i + 1,
                 IF \E j \in 1..Len(acc) : acc[j] = body[i] THEN acc
                 ELSE Append(acc, body[i]))

Unique(body) == UniqueAcc(body, 1, <<>>)

\* get_snake_id: no slot for a snake of health 0
get_snake_id(snake) == IF snake.health = 0 THEN None ELSE snake.id

\* the third check with the distinct-position test off by one
BadStack_offbyone(snake) ==
  /\ \E i \in 1..Len(snake.body) : Counts(snake.body, snake.body[i]) = TRIPLE_STACK
  /\ Cardinality({snake.body[i] : i \in 1..Len(snake.body)}) > 2

\* the third check of convert_from_game, for one snake
BadStack(snake) ==
  /\ \E i \in 1..Len(snake.body) : Counts(snake.body, snake.body[i]) = TRIPLE_STACK
  /\ Cardinality({snake.body[i] : i \in 1..Len(snake.body)}) # 1

\* the cell written for one unique body position, the doubled tail forgotten
BodyCell_nodouble(snake, pos, snake_id, next_index, width) ==
  LET count == Counts(snake.body, pos)
  IN  IF count = TRIPLE_STACK THEN make_triple_stacked_piece(snake_id)
      ELSE IF pos = snake.head
        THEN make_snake_head(snake_id, CellIndexNew(snake.body[Len(snake.body)], width))
      ELSE make_body_piece(snake_id, next_index)

\* the cell written for one unique body position
BodyCell(snake, pos, snake_id, next_index, width) ==
  LET count == Counts(snake.body, pos)
  IN  IF count = TRIPLE_STACK THEN make_triple_stacked_piece(snake_id)
      ELSE IF pos = snake.head
        THEN make_snake_head(snake_id, CellIndexNew(snake.body[Len(snake.body)], width))
      ELSE IF count = DOUBLE_STACK THEN make_double_stacked_piece(snake_id, next_index)
      ELSE make_body_piece(snake_id, next_index)

\* the loop over snake.body.iter().unique(); st is [cells, heads, next_index, panic]
RECURSIVE WriteBody(_, _, _, _, _)
WriteBody(st, snake, uniq, k, width) ==
  IF k > Len(uniq) \/ st.panic THEN st
  ELSE LET pos == uniq[k]
           cell_idx == CellIndexNew(pos, width)
           head_idx == CellIndexNew(snake.head, width)
           count == Counts(snake.body, pos)
       IN  IF \/ (k = 1 /\ cell_idx # head_idx)                 \* assert!(cell_idx == head_idx)
              \/ (count # TRIPLE_STACK /\ pos = snake.head
                    /\ count = DOUBLE_STACK)                    \* assert!(*count != DOUBLE_STACK)
              \/ ~InBounds(cell_idx)                            \* cells[..] out of range
           THEN [st EXCEPT !.panic = TRUE]
           ELSE WriteBody(
                  [cells |-> [st.cells EXCEPT ![cell_idx] =
                                BodyCell(snake, pos, snake.id, st.next_index, width)],
                   heads |-> IF k = 1 THEN [st.heads EXCEPT ![snake.id] = head_idx]
                             ELSE st.heads,
                   next_index |-> cell_idx,
                   panic |-> FALSE],
                  snake, uniq, k + 1, width)

\* the loop over game.board.snakes; st is [cells, healths, heads, lengths, panic]
RECURSIVE WriteSnakes(_, _, _, _)
WriteSnakes(st, snakes, n, width) ==
  IF n > Len(snakes) \/ st.panic THEN st
  ELSE LET snake == snakes[n]
       IN  IF get_snake_id(snake) = None THEN WriteSnakes(st, snakes, n + 1, width)
           ELSE LET w == WriteBody([cells |-> st.cells, heads |-> st.heads,
                                    next_index |-> CellIndexNew(snake.head, width),
                                    panic |-> FALSE],
                                   snake, Unique(snake.body), 1, width)
                IN  WriteSnakes(
                      [cells |-> w.cells,
                       healths |-> [st.healths EXCEPT ![snake.id] = snake.health % 256],
                       heads |-> w.heads,
                       lengths |-> [st.lengths EXCEPT ![snake.id] = Len(snake.body)],
                       panic |-> w.panic],
                      snakes, n + 1, width)

\* the overlay of hazards, then food, on the cells of the game's grid
Overlay(cells, g, width) ==
  [ci \in CellIds |->
     LET onGrid == {p \in {Pos(px, py) : px \in 0..(g.width - 1), py \in 0..(g.height - 1)} :
                      CellIndexNew(p, width) = ci}
         c0 == cells[ci]
         c1 == IF \E p \in onGrid : p \in g.hazards THEN set_hazard(c0) ELSE c0
     IN  IF \E p \in onGrid : p \in g.food THEN set_food(c1) ELSE c1]

convert_from_game(g) ==
  IF g.width * g.height > BOARD_SIZE
    THEN [tag |-> "Err", msg |-> "game size doesn't fit in the given board size"]
  ELSE IF Len(g.snakes) > MAX_SNAKES
    THEN [tag |-> "Err", msg |-> "too many snakes"]
  ELSE IF \E i \in 1..Len(g.snakes) : BadStack(g.snakes[i])
    THEN [tag |-> "Err", msg |-> "bad body stack"]
  ELSE
    LET width == g.width % 256
        st == WriteSnakes([cells |-> [ci \in CellIds |-> empty],
                           healths |-> [s \in SnakeIds |-> 0],
                           heads |-> [s \in SnakeIds |-> from_i32(0)],
                           lengths |-> [s \in SnakeIds |-> 0],
                           panic |-> FALSE],
                          g.snakes, 1, width)
    IN  IF st.panic THEN [tag |-> "Panic"]
        ELSE [tag |-> "Ok",
              board |-> [cells |-> Overlay(st.cells, g, width),
                         heads |-> st.heads,
                         healths |-> st.healths,
                         lengths |-> st.lengths,
                         actual_width |-> g.width % 256,
                         hazard_damage |->
                           IF g.hazard_damage_per_turn = None THEN DefaultHazardDamage
                           ELSE g.hazard_damage_per_turn % 256]]


(***************************************************************************)
(* to_best_cell_board.  A description is [width, height, num_snakes]; its  *)
(* snake bodies are well formed, so that of convert_from_game only the     *)
(* size check and the snake-count check can fail.                          *)
(***************************************************************************)
\* the sizing presets, in the order of the if-chain
Presets ==
  << [name |-> "Tiny", side |-> 7, max_snakes |-> 4, cell |-> "u8"],
     [name |-> "Standard", side |-> 11, max_snakes |-> 4, cell |-> "u8"],
     [name |-> "LargestU8", side |-> 15, max_snakes |-> 8, cell |-> "u8"],
     [name |-> "Large", side |-> 25, max_snakes |-> 8, cell |-> "u16"],
     [name |-> "Silly", side |-> 50, max_snakes |-> 16, cell |-> "u16"] >>

\* the test of a branch that looks at the width only
fits_dimension_only(preset, g) == g.width <= preset.side

\* the test of one branch of the if-chain
fits(preset, g) == g.width <= preset.side /\ g.num_snakes <= preset.max_snakes

\* <preset>::convert_from_game(self, &id_map)?: the first two checks for
\* the capacity and MAX_SNAKES of the preset
preset_convert(preset, g) ==
  IF g.width * g.height > preset.side * preset.side
    THEN [tag |-> "Err", msg |-> "game size doesn't fit in the given board size"]
  ELSE IF g.num_snakes > preset.max_snakes
    THEN [tag |-> "Err", msg |-> "too many snakes"]
  ELSE [tag |-> "Ok", preset |-> preset.name]

\* the if-chain from its k-th branch on; the last else panics
RECURSIVE best_board_from(_, _)
best_board_from(g, k) ==
  IF k > Len(Presets) THEN [tag |-> "Panic", msg |-> "No board was big enough"]
  ELSE IF fits(Presets[k], g) THEN preset_convert(Presets[k], g)
  ELSE best_board_from(g, k + 1)

to_best_cell_board(g) == best_board_from(g, 1)

(***************************************************************************)
(* The step: as_wrapped_cell_index (mod.rs), then the per-snake evaluator  *)
(* and the step applier of eval.rs, which follow sections 4.5 and 4.6 of   *)
(* the specification.                                                      *)
(***************************************************************************)
\* Self::width(): the side of the compile-time capacity
width == Width

\* as_wrapped_cell_index: [idx, debug_fail]; debug_fail says that a
\* debug_assert! of the taken branch is false (a panic of a debug build)
as_wrapped_cell_index(b, p) ==
  LET aw == b.actual_width
      ah == actual_height(b)
      y_ok == p.y >= 0 /\ p.y < ah
      x_ok == p.x >= 0 /\ p.x < aw
      r == IF off_board(b, p)
             THEN IF p.x < 0
                    THEN [pos |-> Pos(aw - 1, p.y), ok |-> p.x = 0 - 1 /\ y_ok]
                  ELSE IF p.x >= aw
                    THEN [pos |-> Pos(0, p.y), ok |-> p.x = aw /\ y_ok]
                  ELSE IF p.y < 0
                    THEN [pos |-> Pos(p.x, ah - 1), ok |-> p.y = 0 - 1 /\ x_ok]
                  ELSE [pos |-> Pos(p.x, 0), ok |-> p.y = ah /\ x_ok]
             ELSE [pos |-> p, ok |-> TRUE]
  IN  [idx |-> CellIndexNew(r.pos, width), debug_fail |-> ~r.ok]

\* no tail counts as leaving
tail_never_vacates(b, ci) == FALSE

\* every tail counts as leaving, stacked or not
tail_always_vacates(b, ci) ==
  \E t \in SnakeIds :
    /\ b.healths[t] > 0
    /\ get_tail_position(get_cell(b, b.heads[t]), b.heads[t]) = ci

\* the cell a snake's tail leaves in this step: an unstacked tail
tail_vacates(b, ci) ==
  \E t \in SnakeIds :
    /\ b.healths[t] > 0
    /\ get_tail_position(get_cell(b, b.heads[t]), b.heads[t]) = ci
    /\ ~is_stacked(get_cell(b, ci))

\* section 4.5 step 5: health after the move onto cell c; at most 0 is death
new_health(b, sid, c) ==
  IF is_food(c) THEN MaxHealth
  ELSE Max(0, b.healths[sid] - 1 - (IF is_hazard(c) THEN b.hazard_damage ELSE 0))

\* SinglePlayerMoveResult of a snake that is not simulated
DeadResult == [ci |-> None, ate |-> FALSE, health |-> 0, dead |-> TRUE,
               debug_fail |-> FALSE, panic |-> FALSE]

\* section 4.5 steps 2-5: the outcome of a new head on cell c, index t.idx
landed(b, sid, t, c) ==
  [ci |-> t.idx, ate |-> is_food(c), health |-> new_health(b, sid, c),
   dead |-> \/ new_health(b, sid, c) <= 0
            \/ (is_body_segment(c) \/ is_head(c)) /\ ~tail_vacates(b, t.idx),
   debug_fail |-> t.debug_fail, panic |-> FALSE]

\* the outcome for the wrapped index t; panic says the index is outside
\* the cell array
result_at(b, sid, t) ==
  IF ~InBounds(t.idx)
    THEN [DeadResult EXCEPT !.panic = TRUE, !.debug_fail = t.debug_fail]
    ELSE landed(b, sid, t, get_cell(b, t.idx))

\* section 4.5: the tentative outcome of one (snake, move), ignoring the
\* moves of the other snakes
evaluate_move(b, sid, mv) ==
  result_at(b, sid,
            as_wrapped_cell_index(b, add_vec(get_head_as_position(b, sid), to_vector(mv))))

\* the candidate lists as a function of the slot (<<>> for a slot not listed)
candidates_of(snake_ids_and_moves, sid) ==
  IF \E i \in 1..Len(snake_ids_and_moves) : snake_ids_and_moves[i][1] = sid
    THEN snake_ids_and_moves[CHOOSE i \in 1..Len(snake_ids_and_moves) :
                               snake_ids_and_moves[i][1] = sid][2]
    ELSE <<>>

\* one row of generate_state: the results of the moves of one slot, in
\* Move::all() order, from the k-th on
RECURSIVE state_row(_, _, _, _)
state_row(b, mvs, sid, k) ==
  IF k > Len(MoveAll) THEN <<>>
  ELSE <<IF MoveAll[k] \in mvs THEN evaluate_move(b, sid, MoveAll[k]) ELSE DeadResult>>
         \o state_row(b, mvs, sid, k + 1)

RECURSIVE state_rows(_, _, _)
state_rows(b, snake_ids_and_moves, sid) ==
  IF sid >= MAX_SNAKES THEN <<>>
  ELSE <<state_row(b, Range(candidates_of(snake_ids_and_moves, sid)), sid, 1)>>
         \o state_rows(b, snake_ids_and_moves, sid + 1)

\* generate_state: sid major, move minor; dead structs for what is not
\* simulated.  The row of slot sid is the (sid + 1)-th of the sequence.
generate_state(b, snake_ids_and_moves) == state_rows(b, snake_ids_and_moves, 0)

\* the result of one <<snake id, move>> in the table of generate_state
result_of(states, id_and_move) == states[id_and_move[1] + 1][as_index(id_and_move[2])]

\* SinglePlayerMoveResult::is_dead
is_dead(move_result) == move_result.dead

\* the tail cell of an alive snake
tail_of(b, sid) == get_tail_position(get_cell(b, b.heads[sid]), b.heads[sid])

\* the tail cell after the step: a stacked tail stays, an unstacked one
\* hands over to the next segment
new_tail_of(b, sid) ==
  LET old_tail == tail_of(b, sid)
      c == get_cell(b, old_tail)
  IN  IF is_stacked(c) THEN old_tail ELSE get_next_index(c)

\* section 4.6 step 1 and the first half of step 4 for one survivor: the
\* tail decrements or vacates, the old head becomes a segment that links
\* to the new head
move_body(b, sid, ci) ==
  LET old_head == b.heads[sid]
      old_tail == tail_of(b, sid)
      c == get_cell(b, old_tail)
  IN  IF is_triple_stacked_piece(c)
        THEN set_cell_double_stacked(b, old_head, sid, ci)
      ELSE LET b1 == IF is_double_stacked_piece(c)
                       THEN set_cell_body_piece(b, old_tail, sid, get_next_index(c))
                       ELSE cell_remove(b, old_tail)
           IN  set_cell_body_piece(b1, old_head, sid, ci)

\* the second half of step 4 for one survivor: the head is written on the
\* new cell, linking to the tail; an eater grows by one through a
\* DoubleStacked tail
write_head(b, sid, res, new_tail) ==
  LET b1 == set_cell_head(b, res.ci, sid, new_tail)
      b2 == [b1 EXCEPT !.heads[sid] = res.ci, !.healths[sid] = res.health]
  IN  IF res.ate
        THEN [set_cell_double_stacked(b2, new_tail, sid, get_next_index(get_cell(b2, new_tail)))
                EXCEPT !.lengths[sid] = b.lengths[sid] + 1]
        ELSE b2

\* section 4.6 step 3b: another new head on the same cell, of a snake at
\* least as long
loses_head_to_head(b, m, states, i) ==
  \E j \in 1..Len(m) :
    /\ m[j][1] # m[i][1]
    /\ result_of(states, m[j]).ci = result_of(states, m[i]).ci
    /\ b.lengths[m[j][1]] >= b.lengths[m[i][1]]

\* section 4.6 step 3: the snakes of the combination m that die in the step
dies_in_step(b, m, states, i) ==
  \/ is_dead(result_of(states, m[i]))
  \/ loses_head_to_head(b, m, states, i)

RECURSIVE eliminate_dead_keeps_food(_, _, _, _, _)
\* eliminate_dead clearing the body chains only
eliminate_dead_keeps_food(b0, b, m, states, i) ==
  IF i > Len(m) THEN b
  ELSE eliminate_dead_keeps_food(
         b0, IF dies_in_step(b0, m, states, i) THEN kill_and_remove(b, m[i][1]) ELSE b,
         m, states, i + 1)

RECURSIVE eliminate_dead(_, _, _, _, _)
\* section 4.6 steps 5 and 6 for the dead snakes of m, from the i-th on:
\* the body chain is cleared, and so is the food the snake bit
eliminate_dead(b0, b, m, states, i) ==
  IF i > Len(m) THEN b
  ELSE LET sid == m[i][1]
           res == result_of(states, m[i])
           b1 == IF dies_in_step(b0, m, states, i)
                   THEN LET k == kill_and_remove(b, sid)
                        IN  IF res.ate /\ is_food(get_cell(k, res.ci))
                              THEN cell_remove(k, res.ci) ELSE k
                   ELSE b
       IN  eliminate_dead(b0, b1, m, states, i + 1)

RECURSIVE move_bodies(_, _, _, _, _)
move_bodies(b0, b, m, states, i) ==
  IF i > Len(m) THEN b
  ELSE move_bodies(b0,
                   IF dies_in_step(b0, m, states, i) THEN b
                   ELSE move_body(b, m[i][1], result_of(states, m[i]).ci),
                   m, states, i + 1)

RECURSIVE write_heads(_, _, _, _, _)
write_heads(b0, b, m, states, i) ==
  IF i > Len(m) THEN b
  ELSE write_heads(b0,
                   IF dies_in_step(b0, m, states, i) THEN b
                   ELSE write_head(b, m[i][1], result_of(states, m[i]),
                                   new_tail_of(b0, m[i][1])),
                   m, states, i + 1)

\* evaluate_moves_with_state refilling the health of the slots that are
\* not in the combination
evaluate_moves_refilling(b, m, states) ==
  [write_heads(b, move_bodies(b, eliminate_dead(b, b, m, states, 1), m, states, 1),
               m, states, 1)
     EXCEPT !.healths = [s \in SnakeIds |->
                           IF \E i \in 1..Len(m) : m[i][1] = s THEN @[s] ELSE MaxHealth]]

\* evaluate_moves_with_state: the successor of b under the combination m,
\* a sequence of <<snake id, move>>
evaluate_moves_with_state(b, m, states) ==
  write_heads(b, move_bodies(b, eliminate_dead(b, b, m, states, 1), m, states, 1),
              m, states, 1)

(***************************************************************************)
(* The overlay getters (mod.rs).                                           *)
(***************************************************************************)
\* cells.iter().enumerate().filter(..): the indices of the cells that
\* satisfy the test `kind`, in array order
enumerate_filter(b, kind) ==
  SelectSeq([i \in 1..BOARD_SIZE |-> i - 1],
            LAMBDA i : IF kind = "hazard" THEN is_hazard(get_cell(b, i))
                       ELSE is_food(get_cell(b, i)))

\* .map(|(i, _)| CellIndex(T::from_usize(i)).into_position(w)).collect()
map_into_position(idxs, w) == [k \in 1..Len(idxs) |-> into_position(idxs[k], w)]

\* decodes with Self::width(), the side of the board type
get_all_hazards_as_positions(b) == map_into_position(enumerate_filter(b, "hazard"), width)

\* decodes with self.actual_width
get_all_food_as_positions(b) == map_into_position(enumerate_filter(b, "food"), b.actual_width)

(***************************************************************************)
(* The simulation driver (mod.rs).                                         *)
(***************************************************************************)
\* Iterator::filter over a candidate list, keeping the order
RECURSIVE filter_moves(_, _, _)
filter_moves(mvs, row, i) ==
  IF i > Len(mvs) THEN <<>>
  ELSE (IF row[as_index(mvs[i])] THEN <<>> ELSE <<mvs[i]>>) \o filter_moves(mvs, row, i + 1)

\* the per-snake list without the fallback to the first candidate
moves_to_try_no_fallback(snake_id, mvs, dead_snakes_table) ==
  LET kept == filter_moves(mvs, dead_snakes_table[snake_id], 1)
  IN  [i \in 1..Len(kept) |-> <<snake_id, kept[i]>>]

\* the closure mapped over snake_ids_and_moves: the candidates that are
\* not dead in the table, or the first candidate
moves_to_try(snake_id, mvs, dead_snakes_table) ==
  LET first_move == mvs[1]
      kept == filter_moves(mvs, dead_snakes_table[snake_id], 1)
  IN  IF kept = <<>> THEN << <<snake_id, first_move>> >>
      ELSE [i \in 1..Len(kept) |-> <<snake_id, kept[i]>>]

\* every element of `seqs` with x put in front, in order
RECURSIVE prepend_each(_, _, _)
prepend_each(x, seqs, i) ==
  IF i > Len(seqs) THEN <<>>
  ELSE << <<x>> \o seqs[i] >> \o prepend_each(x, seqs, i + 1)

\* every element of `seqs` with x put at the end, in order
RECURSIVE append_each(_, _, _)
append_each(x, seqs, i) ==
  IF i > Len(seqs) THEN <<>>
  ELSE << Append(seqs[i], x) >> \o append_each(x, seqs, i + 1)

\* the product with the first list varying fastest
RECURSIVE multi_cartesian_product_first_fastest(_)
multi_cartesian_product_first_fastest(lists) ==
  IF lists = <<>> THEN << <<>> >>
  ELSE LET n == Len(lists)
           rest == multi_cartesian_product_first_fastest(SubSeq(lists, 1, n - 1))
           last == lists[n]
           RECURSIVE all_from(_)
           all_from(i) ==
             IF i > Len(last) THEN <<>>
             ELSE append_each(last[i], rest, 1) \o all_from(i + 1)
       IN  all_from(1)

\* itertools multi_cartesian_product: the last list varies fastest
RECURSIVE multi_cartesian_product(_)
multi_cartesian_product(lists) ==
  IF lists = <<>> THEN << <<>> >>
  ELSE LET rest == multi_cartesian_product(Tail(lists))
           first == Head(lists)
           RECURSIVE all_from(_)
           all_from(i) ==
             IF i > Len(first) THEN <<>>
             ELSE prepend_each(first[i], rest, 1) \o all_from(i + 1)
       IN  all_from(1)

\* results with one board shared by all entries: every combination paired
\* with the successor of the first one
RECURSIVE pair_each_shared(_, _, _, _)
pair_each_shared(b, ids_and_moves_product, states, k) ==
  IF k > Len(ids_and_moves_product) THEN <<>>
  ELSE << <<ids_and_moves_product[k],
            evaluate_moves_with_state(b, ids_and_moves_product[1], states)>> >>
         \o pair_each_shared(b, ids_and_moves_product, states, k + 1)

\* results: every combination paired with its successor
RECURSIVE pair_each(_, _, _, _)
pair_each(b, ids_and_moves_product, states, k) ==
  IF k > Len(ids_and_moves_product) THEN <<>>
  ELSE << <<ids_and_moves_product[k],
            evaluate_moves_with_state(b, ids_and_moves_product[k], states)>> >>
         \o pair_each(b, ids_and_moves_product, states, k + 1)

\* dead_snakes_table[sid][move_index] = move_result.is_dead()
dead_snakes_table(states) ==
  [sid \in SnakeIds |-> [k \in 1..4 |-> is_dead(states[sid + 1][k])]]

\* a panic of every build: an index outside the cell array, or moves[0] of
\* an empty candidate list
hard_panic(snake_ids_and_moves, states) ==
  \/ \E sid \in SnakeIds, k \in 1..4 : states[sid + 1][k].panic
  \/ \E i \in 1..Len(snake_ids_and_moves) : snake_ids_and_moves[i][2] = <<>>

\* a panic of a debug build: a false debug_assert! of as_wrapped_cell_index
debug_panic(states) == \E sid \in SnakeIds, k \in 1..4 : states[sid + 1][k].debug_fail

\* simulate_with_moves after generate_state
simulate_with_states(b, snake_ids_and_moves, states) ==
  [hard |-> hard_panic(snake_ids_and_moves, states),
   debug |-> debug_panic(states),
   value |->
     IF hard_panic(snake_ids_and_moves, states) THEN <<>>
     ELSE pair_each(b,
                    multi_cartesian_product(
                      [i \in 1..Len(snake_ids_and_moves) |->
                         moves_to_try(snake_ids_and_moves[i][1], snake_ids_and_moves[i][2],
                                      dead_snakes_table(states))]),
                    states, 1)]

\* simulate_with_moves: [hard, debug, value]: the list of <<combination,
\* successor>> unless the call panics
simulate_with_moves(b, snake_ids_and_moves) ==
  simulate_with_states(b, snake_ids_and_moves, generate_state(b, snake_ids_and_moves))

(***************************************************************************)
(* The wire games the model enumerates: square wrapped games whose snakes  *)
(* are pairwise disjoint and whose food lies on free cells, plus the games *)
(* the three checks of convert_from_game reject.                           *)
(***************************************************************************)
Grid(w) == {Pos(px, py) : px \in 0..(w - 1), py \in 0..(w - 1)}

\* the four wrapped neighbours of a position of a w x w game
WrapAdj(p, w) == {Pos((p.x + to_vector(m).x) % w, (p.y + to_vector(m).y) % w) : m \in Moves}

\* the self-avoiding paths of L cells, head first
RECURSIVE Paths(_, _)
Paths(w, L) ==
  IF L = 1 THEN {<<p>> : p \in Grid(w)}
  ELSE UNION {{Append(q, n) : n \in WrapAdj(q[Len(q)], w) \ Range(q)} : q \in Paths(w, L - 1)}

\* well-formed bodies: a path, a path with a doubled tail, a full triple stack
Bodies(w) ==
  UNION {Paths(w, L) : L \in 1..MaxBodyCells}
    \cup UNION {{Append(q, q[Len(q)]) : q \in Paths(w, L)} : L \in 2..MaxBodyCells}
    \cup {<<p, p, p>> : p \in Grid(w)}

Snake(sid, health, body) == [id |-> sid, health |-> health, head |-> body[1], body |-> body]

\* the overlays: nothing, one food on a cell outside `taken`, one hazard
\* anywhere, or both on one cell
Overlays(w, taken) ==
  {[food |-> {}, hazards |-> {}]}
    \cup {[food |-> {p}, hazards |-> {}] : p \in Grid(w) \ taken}
    \cup {[food |-> {}, hazards |-> {p}] : p \in Grid(w)}
    \cup {[food |-> {p}, hazards |-> {p}] : p \in Grid(w) \ taken}

WireGame(w, h, snakes, food, hazards, dmg) ==
  [width |-> w, height |-> h, food |-> food, hazards |-> hazards, snakes |-> snakes,
   hazard_damage_per_turn |-> dmg]

SnakeCells(snakes) == UNION {Range(snakes[i].body) : i \in 1..Len(snakes)}

Disjoint(snakes) ==
  \A i, j \in 1..Len(snakes) : i # j => Range(snakes[i].body) \cap Range(snakes[j].body) = {}

\* a snake body is well formed: body[0] is the head, and it is a full triple
\* stack, or a self-avoiding sequence whose last position may be doubled
WellFormed(snake) ==
  /\ Len(snake.body) >= 1
  /\ snake.body[1] = snake.head
  /\ LET u == Unique(snake.body)
     IN  \/ (Len(snake.body) = 3 /\ Len(u) = 1)
         \/ Len(u) = Len(snake.body)
         \/ /\ Len(u) = Len(snake.body) - 1
            /\ Len(u) >= 2
            /\ snake.body[Len(snake.body)] = snake.body[Len(snake.body) - 1]

\* the free cell with the largest index
LastFree(w, taken) ==
  CHOOSE p \in Grid(w) \ taken :
    \A q \in Grid(w) \ taken : CellIndexNew(q, w) <= CellIndexNew(p, w)

\* one snake, dead or alive, or two disjoint snakes, the second a spawn stack
SnakeLists(w) ==
  {<<Snake(0, h, b)>> : h \in {0, MaxHealth}, b \in Bodies(w)}
    \cup {<<Snake(0, MaxHealth, b), Snake(1, h, <<LastFree(w, Range(b)), LastFree(w, Range(b)),
                                                 LastFree(w, Range(b))>>)>> :
            h \in {0, MaxHealth}, b \in {c \in Bodies(w) : Grid(w) \ Range(c) # {}}}

\* the valid games of logical width w
ValidGames(w) ==
  UNION {{WireGame(w, w, sl, o.food, o.hazards, None) : o \in Overlays(w, SnakeCells(sl))}
         : sl \in SnakeLists(w)}

\* games one of the three checks rejects: too large a grid, too many snakes
\* (alive or dead), three coincident entries beside another position
RejectedGames(W) ==
  {WireGame(Width + 1, Width + 1, <<Snake(0, MaxHealth, <<p, p, p>>)>>, {}, {}, None) :
     p \in Grid(Width + 1)}
    \cup {WireGame(Width, Width,
                   [i \in 1..(MAX_SNAKES + 1) |->
                      Snake(i - 1, IF i <= alive THEN MaxHealth ELSE 0,
                            <<Pos((i - 1) % Width, (i - 1) \div Width),
                              Pos((i - 1) % Width, (i - 1) \div Width),
                              Pos((i - 1) % Width, (i - 1) \div Width)>>)],
                   {}, {}, dmg) : alive \in 0..(MAX_SNAKES + 1), dmg \in {None, 1}}
    \cup {WireGame(Width, Width, <<Snake(0, h, b)>>, {}, {}, None) :
            h \in {0, MaxHealth},
            b \in UNION {{<<q[1], q[1], q[1], q[2]>>, <<q[1], q[2], q[2], q[2]>>,
                          <<q[1], q[2], q[1], q[1]>>} : q \in Paths(Width, 2)}}

\* games that pass the three checks with a malformed living snake: the
\* head position twice among the body entries, or a first body entry that
\* is not the head, with the head listed later or not at all
MalformedGames(w) ==
  UNION {{WireGame(w, w, <<[id |-> 0, health |-> MaxHealth, head |-> q[1], body |-> b]>>,
                   {}, {}, None) :
            b \in {<<q[1], q[1]>>, <<q[1], q[1], q[2]>>, <<q[1], q[2], q[1]>>,
                   <<q[2], q[1]>>, <<q[2]>>}}
         : q \in Paths(w, 2)}


(***************************************************************************)
(* Specification of the wrapped neighbour functions: every width a u8      *)
(* board admits and every cell of such a board, then one call.             *)
(***************************************************************************)
InitNeighbors ==
  /\ query \in {[width |-> w, pos |-> p] : w \in 1..LargestU8Width, p \in 0..(LargestU8Width * LargestU8Width - 1)}
  /\ query.pos < query.width * query.width
  /\ phase = "query"
  /\ ret = <<>>
  /\ game = NoGame /\ board = NoBoard /\ prev = NoBoard
  /\ moves = <<>> /\ turn = 0 /\ hist = NoHist

CallPossibleMoves ==
  /\ phase = "query"
  /\ phase' = "returned"
  /\ ret' = [fn |-> "possible_moves", value |-> possible_moves_fixed(query.width, query.pos)]
  /\ UNCHANGED <<game, board, prev, moves, turn, hist, query>>

CallNeighbors ==
  /\ phase = "query"
  /\ phase' = "returned"
  /\ ret' = [fn |-> "neighbors", value |-> neighbors_fixed(query.width, query.pos)]
  /\ UNCHANGED <<game, board, prev, moves, turn, hist, query>>

NextNeighbors == CallPossibleMoves \/ CallNeighbors

SpecNeighbors == InitNeighbors /\ [][NextNeighbors]_vars

(***************************************************************************)
(* Specification of the wrapped neighbour functions on the sizing presets: *)
(* the side of a preset, u8 or u16, and every cell of its grid, then one   *)
(* call.                                                                   *)
(***************************************************************************)
InitPresetNeighbors ==
  /\ \E k \in 1..Len(Presets) :
       query \in {[width |-> Presets[k].side, pos |-> p] :
                    p \in 0..(Presets[k].side * Presets[k].side - 1)}
  /\ phase = "query"
  /\ ret = <<>>
  /\ game = NoGame /\ board = NoBoard /\ prev = NoBoard
  /\ moves = <<>> /\ turn = 0 /\ hist = NoHist

SpecPresetNeighbors == InitPresetNeighbors /\ [][NextNeighbors]_vars

(***************************************************************************)
(* Specification of the scalar neighbour functions of CellBoard: the       *)
(* widths and cells of InitNeighbors, then one call on a board of that     *)
(* logical width.  A debug_assert! is compiled in or out with the build:   *)
(* where it fails the call either panics or returns.                       *)
(***************************************************************************)
\* the fields of a board that the neighbour functions read
BoardOfWidth(w) == [actual_width |-> w]

BoardPossibleMoves ==
  /\ phase = "query"
  /\ phase' = "returned"
  /\ ret' = [fn |-> "possible_moves",
             value |-> possible_moves(BoardOfWidth(query.width), query.pos)]
  /\ UNCHANGED <<game, board, prev, moves, turn, hist, query>>

BoardNeighbors ==
  /\ phase = "query"
  /\ phase' = "returned"
  /\ ret' = [fn |-> "neighbors", value |-> neighbors(BoardOfWidth(query.width), query.pos)]
  /\ UNCHANGED <<game, board, prev, moves, turn, hist, query>>

\* the build with debug assertions: the call panics
BoardMovesDebugPanic ==
  /\ phase = "query"
  /\ possible_moves_assert_fails(BoardOfWidth(query.width), query.pos)
  /\ phase' = "panic"
  /\ ret' = <<>>
  /\ UNCHANGED <<game, board, prev, moves, turn, hist, query>>

NextBoardMoves == BoardPossibleMoves \/ BoardNeighbors \/ BoardMovesDebugPanic

SpecBoardMoves == InitNeighbors /\ [][NextBoardMoves]_vars

(***************************************************************************)
(* Specification of the CellIndex round trip: a cell-number type, a width  *)
(* and a position of the grid of that width, then new and into_position.   *)
(***************************************************************************)
InitIndex ==
  /\ query \in {[type |-> T, width |-> w, pos |-> Pos(px, py)] :
                  T \in CellNums, w \in 1..MaxIndexWidth,
                  px \in 0..(MaxIndexWidth - 1), py \in 0..(MaxIndexWidth - 1)}
  /\ query.pos.x < query.width
  /\ query.pos.y < query.width
  /\ phase = "query"
  /\ ret = <<>>
  /\ game = NoGame /\ board = NoBoard /\ prev = NoBoard
  /\ moves = <<>> /\ turn = 0 /\ hist = NoHist

\* CellIndex::new(p, w).into_position(w)
CallRoundTrip ==
  /\ phase = "query"
  /\ phase' = "returned"
  /\ ret' = into_position(CellIndexNewOf(query.type, query.pos, query.width), query.width)
  /\ UNCHANGED <<game, board, prev, moves, turn, hist, query>>

NextIndex == CallRoundTrip

SpecIndex == InitIndex /\ [][NextIndex]_vars


(***************************************************************************)
(* Specification of the cell operations: a cell of any kind, hazardous or  *)
(* not, then a sequence of operations on it.  ret is the cell, prev the    *)
(* cell before the last operation, query the name of that operation, hist  *)
(* the hazard bit at the start and whether set_hazard or clear_hazard has  *)
(* been applied since.                                                     *)
(***************************************************************************)
CellKinds == {SNAKE_HEAD, SNAKE_BODY_PIECE, DOUBLE_STACKED_PIECE, TRIPLE_STACKED_PIECE,
              FOOD, EMPTY}

\* the links the operations are handed
CellLinks == {0, BOARD_SIZE - 1}

InitCell ==
  /\ ret \in {[flags |-> k + hz, id |-> sid, idx |-> ci] :
                k \in CellKinds, hz \in {0, IS_HAZARD}, sid \in SnakeIds, ci \in CellLinks}
  /\ prev = ret
  /\ hist = [hazard |-> is_hazard(ret), touched |-> FALSE]
  /\ phase = "cell"
  /\ query = NoQuery
  /\ game = NoGame /\ board = NoBoard
  /\ moves = <<>> /\ turn = 0

\* the operation named op has turned the cell into c
CellOp(op, c) ==
  /\ ret' = c
  /\ prev' = ret
  /\ query' = op
  /\ hist' = [hist EXCEPT !.touched = @ \/ op \in {"set_hazard", "clear_hazard"}]
  /\ turn' = turn + 1
  /\ UNCHANGED <<game, board, phase, moves>>

CellRemove ==
  /\ phase = "cell" /\ turn < MaxCellOps
  /\ CellOp("remove", remove(ret))

CellRemoveSnake ==
  /\ phase = "cell" /\ turn < MaxCellOps
  /\ CellOp("remove_snake", remove_snake(ret))

CellSetFood ==
  /\ phase = "cell" /\ turn < MaxCellOps
  /\ CellOp("set_food", set_food(ret))

CellSetHead ==
  /\ phase = "cell" /\ turn < MaxCellOps
  /\ \E sid \in SnakeIds, ci \in CellLinks : CellOp("set_head", set_head(ret, sid, ci))

CellSetBodyPiece ==
  /\ phase = "cell" /\ turn < MaxCellOps
  /\ \E sid \in SnakeIds, ci \in CellLinks :
       CellOp("set_body_piece", set_body_piece(ret, sid, ci))

CellSetDoubleStacked ==
  /\ phase = "cell" /\ turn < MaxCellOps
  /\ \E sid \in SnakeIds, ci \in CellLinks :
       CellOp("set_double_stacked", set_double_stacked(ret, sid, ci))

CellSetHazard ==
  /\ phase = "cell" /\ turn < MaxCellOps
  /\ CellOp("set_hazard", set_hazard(ret))

CellClearHazard ==
  /\ phase = "cell" /\ turn < MaxCellOps
  /\ CellOp("clear_hazard", clear_hazard(ret))

NextCell ==
  \/ CellRemove
  \/ CellRemoveSnake
  \/ CellSetFood
  \/ CellSetHead
  \/ CellSetBodyPiece
  \/ CellSetDoubleStacked
  \/ CellSetHazard
  \/ CellClearHazard

SpecCell == InitCell /\ [][NextCell]_vars


(***************************************************************************)
(* Specification of to_best_cell_board: a description, square or one row   *)
(* higher than wide, then the call.                                        *)
(***************************************************************************)
InitBest ==
  /\ query \in {[width |-> w, height |-> w + dh, num_snakes |-> n] :
                  w \in 1..MaxDimension, dh \in 0..1, n \in 0..MaxGameSnakes}
  /\ phase = "query"
  /\ ret = <<>>
  /\ game = NoGame /\ board = NoBoard /\ prev = NoBoard
  /\ moves = <<>> /\ turn = 0 /\ hist = NoHist

\* to_best_cell_board returns Ok(preset) or Err(message)
CallBest ==
  /\ phase = "query"
  /\ to_best_cell_board(query).tag # "Panic"
  /\ phase' = "returned"
  /\ ret' = to_best_cell_board(query)
  /\ UNCHANGED <<game, board, prev, moves, turn, hist, query>>

\* to_best_cell_board panics
CallBestPanic ==
  /\ phase = "query"
  /\ to_best_cell_board(query).tag = "Panic"
  /\ phase' = "panic"
  /\ ret' = <<>>
  /\ UNCHANGED <<game, board, prev, moves, turn, hist, query>>

NextBest == CallBest \/ CallBestPanic

SpecBest == InitBest /\ [][NextBest]_vars


(***************************************************************************)
(* Specification of construction: a wire game, then convert_from_game.     *)
(***************************************************************************)
InitConvert ==
  /\ \/ \E w \in (Width - 1)..Width : game \in ValidGames(w)
     \/ game \in RejectedGames(Width)
     \/ game \in MalformedGames(Width)
  /\ phase = "input"
  /\ board = NoBoard /\ prev = NoBoard
  /\ moves = <<>> /\ turn = 0 /\ hist = NoHist
  /\ query = NoQuery /\ ret = <<>>

\* convert_from_game: Ok(board), Err(message), or a panic of an assert!
Convert ==
  /\ phase = "input"
  /\ LET r == convert_from_game(game)
     IN  /\ phase' = (CASE r.tag = "Ok" -> "board" [] r.tag = "Err" -> "error"
                        [] OTHER -> "panic")
         /\ board' = IF r.tag = "Ok" THEN r.board ELSE NoBoard
         /\ ret' = IF r.tag = "Err" THEN r.msg ELSE <<>>
  /\ UNCHANGED <<game, prev, moves, turn, hist, query>>

NextConvert == Convert

SpecConvert == InitConvert /\ [][NextConvert]_vars


(***************************************************************************)
(* Specification of the steps: a board constructed from a start game,      *)
(* then steps through simulate_with_moves with one candidate per alive     *)
(* snake (the call of the source's tests), the first successor taken.      *)
(***************************************************************************)
IsTripleStack(snake) == Len(snake.body) = 3 /\ Cardinality(Range(snake.body)) = 1

\* cells where a start game has food: free cells next to the head of a
\* snake that is not a spawn stack, or two moves from a spawn stack; never
\* next to a spawn stack (the rules place no food there)
FoodCells(w, snakes) ==
  LET heads == {snakes[i].head : i \in 1..Len(snakes)}
      spawn == {snakes[i].head : i \in {j \in 1..Len(snakes) : IsTripleStack(snakes[j])}}
      near(ps) == UNION {WrapAdj(p, w) : p \in ps}
  IN  ((near(heads \ spawn) \cup near(near(spawn))) \ near(spawn)) \ SnakeCells(snakes)

\* the wrapped neighbour of p in the direction of m
WrapStep(p, m, w) == Pos((p.x + to_vector(m).x) % w, (p.y + to_vector(m).y) % w)

\* no overlay, one food, one hazard above or left of the first head, or
\* food on a hazard
StartOverlays(w, snakes) ==
  {[food |-> {}, hazards |-> {}]}
    \cup {[food |-> {p}, hazards |-> {}] : p \in FoodCells(w, snakes)}
    \cup {[food |-> {}, hazards |-> {WrapStep(snakes[1].head, m, w)}] : m \in {Up, Left}}
    \cup {[food |-> {p}, hazards |-> {p}] : p \in FoodCells(w, snakes)}

\* bodies of length 3 or more with the head at p
StartBodies(w, p) == {b \in Bodies(w) : Len(b) >= 3 /\ b[1] = p}

\* a second snake at q: a spawn stack, or a snake one move after its spawn
SecondBodies(w, q) == {<<q, q, q>>, <<q, WrapStep(q, Right, w), WrapStep(q, Right, w)>>}

\* one snake of length 3 at the origin, any health
OneSnake(w) ==
  {<<Snake(0, h, b)>> : h \in {1, 2, MaxHealth},
                        b \in {c \in StartBodies(w, Pos(0, 0)) : Len(c) = 3}}

\* a first snake whose neck is above its head, and a second snake
TwoSnakes(w) ==
  {sl \in {<<Snake(0, MaxHealth, b), Snake(1, MaxHealth, c)>> :
             b \in {<<Pos(0, 0), Pos(0, 0), Pos(0, 0)>>,
                    <<Pos(0, 0), Pos(0, 1), Pos(0, 1)>>,
                    <<Pos(0, 0), Pos(0, 1), Pos(0, 2)>>,
                    <<Pos(0, 0), Pos(0, 1), Pos(0, 2), Pos(0, 2)>>},
             c \in SecondBodies(w, Pos(1, 1)) \cup SecondBodies(w, Pos(1, 0))} :
     Disjoint(sl)}

\* three snakes around one free cell
ThreeSnakes(w) ==
  {sl \in {<<Snake(0, MaxHealth, b), Snake(1, MaxHealth, <<q, q, q>>),
             Snake(2, MaxHealth, <<Pos(w - 1, w - 1), Pos(w - 1, w - 1), Pos(w - 1, w - 1)>>)>> :
             b \in {<<Pos(0, 0), Pos(0, 0), Pos(0, 0)>>,
                    <<Pos(0, 0), Pos(0, 1), Pos(1, 1), Pos(1, 1)>>},
             q \in {Pos(1, 0), Pos(0, w - 1)}} :
     Disjoint(sl)}

\* the start games of logical width w: on the full side of the board type
\* one to three snakes with overlays, on a smaller side one snake on any
\* cell without overlays
StartGames(w) ==
  IF w < Width
    THEN {WireGame(w, w, <<Snake(0, MaxHealth, b)>>, {}, {}, None) :
            b \in {c \in Bodies(w) : Len(c) = 3}}
    ELSE UNION {{WireGame(w, w, sl, o.food, o.hazards, None) : o \in StartOverlays(w, sl)}
                : sl \in OneSnake(w)}
         \cup UNION {{WireGame(w, w, sl, o.food, {}, None) :
                        o \in {x \in StartOverlays(w, sl) : x.hazards = {}}}
                     : sl \in TwoSnakes(w) \cup ThreeSnakes(w)}

\* steps explored from a start game: one fewer when several snakes play or
\* the game has food or hazards
TurnLimit(g) ==
  IF Len(g.snakes) = 1 /\ g.food = {} /\ g.hazards = {} THEN MaxTurns ELSE MaxTurns - 1

Init ==
  /\ \E w \in (Width - 1)..Width : game \in StartGames(w)
  /\ board = convert_from_game(game).board
  /\ phase = "board"
  /\ prev = NoBoard
  /\ moves = <<>> /\ turn = 0 /\ hist = <<>>
  /\ query = NoQuery /\ ret = <<>>

\* the alive snakes in slot order, as a sequence
RECURSIVE alive_from(_, _)
alive_from(b, sid) ==
  IF sid >= MAX_SNAKES THEN <<>>
  ELSE (IF b.healths[sid] > 0 THEN <<sid>> ELSE <<>>) \o alive_from(b, sid + 1)

\* the snakes that grew in a step and are alive after it
fed_snakes(before, after) ==
  {sid \in SnakeIds : after.healths[sid] > 0 /\ after.lengths[sid] > before.lengths[sid]}

\* one candidate per alive snake, in slot order
single_move_map(alive, choice) == [i \in 1..Len(alive) |-> <<alive[i], <<choice[alive[i]]>> >>]

\* the call returned r: the board of its first entry becomes the board
TakeFirst(r) ==
  /\ ~r.hard
  /\ board' = r.value[1][2]
  /\ moves' = r.value[1][1]
  /\ hist' = Append(hist, [combo |-> r.value[1][1], fed |-> fed_snakes(board, r.value[1][2])])

\* one step of the run: simulate_with_moves with one candidate per alive
\* snake returns, and the board of its first entry becomes the board
Step ==
  /\ phase = "board"
  /\ turn < TurnLimit(game)
  /\ get_snake_ids(board) # {}
  /\ \E choice \in [get_snake_ids(board) -> Moves] :
       TakeFirst(simulate_with_moves(board, single_move_map(alive_from(board, 0), choice)))
  /\ prev' = board
  /\ turn' = turn + 1
  /\ UNCHANGED <<game, phase, query, ret>>

\* the call with move_map panicked
Panicked(r, move_map) ==
  /\ (r.hard \/ r.debug)
  /\ moves' = move_map

\* the call panics: a cell index outside the array, or (in a debug build) a
\* false debug_assert! of as_wrapped_cell_index
StepPanic ==
  /\ phase = "board"
  /\ turn < TurnLimit(game)
  /\ get_snake_ids(board) # {}
  /\ \E choice \in [get_snake_ids(board) -> Moves] :
       Panicked(simulate_with_moves(board, single_move_map(alive_from(board, 0), choice)),
                single_move_map(alive_from(board, 0), choice))
  /\ phase' = "panic"
  /\ prev' = board
  /\ board' = NoBoard
  /\ turn' = turn + 1
  /\ UNCHANGED <<game, hist, query, ret>>

Next == Step \/ StepPanic

Spec == Init /\ [][Next]_vars

(***************************************************************************)
(* Specification of the driver: a constructed board, a call of             *)
(* simulate_with_moves with a candidate list per alive snake, in slot      *)
(* order or its reverse, and the search going on from the first successor. *)
(***************************************************************************)
\* further calls after the first one
DriverTurns == 1

\* the candidate lists a caller hands over for one snake
CandidateLists == {<<Up>>, MoveAll, <<Right, Up, Left>>}

\* the start games of the driver: no overlays
DriverGames(w) == {g \in StartGames(w) : g.food = {} /\ g.hazards = {}}

\* the move maps: a candidate list per alive snake, in slot order or reversed
MoveMaps(b) ==
  LET alive == alive_from(b, 0)
      n == Len(alive)
  IN  {[i \in 1..n |-> <<alive[IF rev THEN n + 1 - i ELSE i], c[i]>>] :
         rev \in BOOLEAN, c \in [1..n -> CandidateLists]}

InitDriver ==
  /\ \E w \in (Width - 1)..Width : game \in DriverGames(w)
  /\ board = convert_from_game(game).board
  /\ phase = "board"
  /\ prev = NoBoard
  /\ moves = <<>> /\ turn = 0 /\ hist = <<>>
  /\ query = NoQuery /\ ret = <<>>

\* the call with move_map returned r
Returned(r, move_map) ==
  /\ ~r.hard
  /\ query' = move_map
  /\ ret' = r.value

\* simulate_with_moves returns its list of <<combination, successor>>
CallSimulate ==
  /\ phase = "board"
  /\ get_snake_ids(board) # {}
  /\ \E move_map \in MoveMaps(board) :
       Returned(simulate_with_moves(board, move_map), move_map)
  /\ phase' = "returned"
  /\ UNCHANGED <<game, board, prev, moves, turn, hist>>

\* the call with move_map panicked
CallPanicked(r, move_map) ==
  /\ (r.hard \/ r.debug)
  /\ query' = move_map

\* simulate_with_moves panics: a cell index outside the array, or (in a
\* debug build) a false debug_assert! of as_wrapped_cell_index
CallSimulatePanic ==
  /\ phase = "board"
  /\ get_snake_ids(board) # {}
  /\ \E move_map \in MoveMaps(board) :
       CallPanicked(simulate_with_moves(board, move_map), move_map)
  /\ ret' = <<>>
  /\ phase' = "panic"
  /\ UNCHANGED <<game, board, prev, moves, turn, hist>>

\* the caller goes on from the first successor
Advance ==
  /\ phase = "returned"
  /\ turn < DriverTurns
  /\ board' = ret[1][2]
  /\ moves' = ret[1][1]
  /\ prev' = board
  /\ turn' = turn + 1
  /\ phase' = "board"
  /\ UNCHANGED <<game, hist, query, ret>>

NextDriver == CallSimulate \/ CallSimulatePanic \/ Advance

SpecDriver == InitDriver /\ [][NextDriver]_vars

(***************************************************************************)
(* Claims about the wrapped neighbour functions (SpecNeighbors).           *)
(***************************************************************************)
\* C1: on a wrapped board with u8 cell numbers (width w <= 15), for every
\* in-grid position (x, y), possible_moves returns exactly the four pairs
\* (Up, (x, (y+1) mod w)), (Down, (x, (y-1) mod w)), (Left, ((x-1) mod w, y)),
\* (Right, ((x+1) mod w, y)) in this order, each position encoded as
\* y'*w + x'; neighbors returns the same four indices in the same order.
C1_WrappedNeighborsInOrder ==
  phase = "returned" =>
    \A px, py \in 0..(query.width - 1) :
      query.pos = py * query.width + px =>
        LET w == query.width
            up == ((py + 1) % w) * w + px
            down == ((py - 1) % w) * w + px
            left == py * w + ((px - 1) % w)
            right == py * w + ((px + 1) % w)
        IN  IF ret.fn = "possible_moves"
              THEN ret.value = << <<Up, up>>, <<Down, down>>, <<Left, left>>, <<Right, right>> >>
              ELSE ret.value = <<up, down, left, right>>

\* the corner of the 11x11 board: head at cell 110, as in
\* test_neighbors_and_possible_moves_cornered
C1_Witness ==
  /\ phase = "returned"
  /\ ret.fn = "possible_moves"
  /\ query.width = 11
  /\ query.pos = 110
  /\ ret.value = << <<Up, 0>>, <<Down, 99>>, <<Left, 120>>, <<Right, 111>> >>

\* C30: the vectorised wrapped neighbour computation agrees with the scalar
\* form on every board size the type admits, including the u16-indexed
\* presets 25x25 and 50x50: for every in-grid position, each returned index
\* equals y'*w + x' of the wrapped neighbour as an exact integer, with no
\* truncation modulo 256.
C30_VectorisedIndexIsExact ==
  phase = "returned" =>
    \A k \in 1..Len(MoveAll) :
      LET w == query.width
          p == add_vec(into_position(query.pos, w), to_vector(MoveAll[k]))
          ci == IF ret.fn = "neighbors" THEN ret.value[k] ELSE ret.value[k][2]
      IN  ci = (p.y % w) * w + (p.x % w)

(***************************************************************************)
(* Claims about CellIndex (SpecIndex).                                     *)
(***************************************************************************)
\* C14: for both cell-number types (u8 and u16), every width w and every
\* position p with 0 <= p.x < w and 0 <= p.y < w,
\* CellIndex::into_position(CellIndex::new(p, w), w) equals p: the index
\* y*w + x is not truncated by the cell-number type.
C14_IndexRoundTrip ==
  phase = "returned" =>
    /\ ret = query.pos
    /\ CellIndexNewOf(query.type, query.pos, query.width)
         = query.pos.y * query.width + query.pos.x


(***************************************************************************)
(* Claims about the cell operations (SpecCell).                            *)
(***************************************************************************)
\* C19: for any cell and any finite sequence of the operations remove,
\* remove_snake, set_food, set_head, set_body_piece and set_double_stacked,
\* the cell's hazard bit after the sequence equals its hazard bit before
\* it; and set_hazard / clear_hazard change only the hazard bit, leaving the
\* cell's kind, snake id and link unchanged.
C19_HazardBitIsKept ==
  (phase = "cell" /\ turn >= 1) =>
    /\ ~hist.touched => is_hazard(ret) = hist.hazard
    /\ IF query \in {"set_hazard", "clear_hazard"}
         THEN /\ is_hazard(ret) = (query = "set_hazard")
              /\ Kind(ret) = Kind(prev)
              /\ ret.flags - (IF is_hazard(ret) THEN IS_HAZARD ELSE 0)
                   = prev.flags - (IF is_hazard(prev) THEN IS_HAZARD ELSE 0)
              /\ ret.id = prev.id
              /\ ret.idx = prev.idx
         ELSE is_hazard(ret) = is_hazard(prev)

\* a hazardous cell that was made a head, then a body piece, then removed:
\* it is empty and still hazardous
C19_Witness ==
  /\ phase = "cell"
  /\ turn = MaxCellOps
  /\ ~hist.touched
  /\ hist.hazard
  /\ query = "remove"
  /\ is_snake_body_piece(prev)
  /\ is_hazard(prev)
  /\ is_empty(ret)
  /\ is_hazard(ret)


C28_ScalarNeighboursAreOnBoard ==
  phase # "query" =>
    /\ phase = "returned"
    /\ \A k \in 1..Len(MoveAll) :
         LET new_head == add_vec(into_position(query.pos, query.width),
                                 to_vector(MoveAll[k]))
             ci == IF ret.fn = "neighbors" THEN ret.value[k] ELSE ret.value[k][2]
         IN  /\ ~off_board(BoardOfWidth(query.width), new_head)
             /\ ci = new_head.y * query.width + new_head.x


C10_RejectedGamesReturnError ==
  (phase # "input" /\
     \/ game.width * game.height > BOARD_SIZE
     \/ Len(game.snakes) > MAX_SNAKES
     \/ \E i \in 1..Len(game.snakes) :
          LET body == game.snakes[i].body
          IN  \E j, k \in 1..Len(body) :
                /\ Cardinality({m \in 1..Len(body) : body[m] = body[j]}) = 3
                /\ body[k] # body[j])
    => (phase = "error" /\ board = NoBoard)

\* a game of fitting size and snake count rejected for a dead snake's bad stack
C10_Witness ==
  /\ phase = "error"
  /\ board = NoBoard
  /\ game.width * game.height <= BOARD_SIZE
  /\ Len(game.snakes) <= MAX_SNAKES
  /\ game.snakes[1].health = 0
  /\ Len(game.snakes[1].body) = 4

\* C11: every malformed snake body given to convert_from_game is reported
\* as a returned construction error and never as a panic: this includes a
\* living snake whose head position occurs exactly twice in its body and a
\* living snake whose first body entry is not its head position.
C11_MalformedBodiesReturnError ==
  (phase # "input" /\
     \E i \in 1..Len(game.snakes) :
       /\ game.snakes[i].health > 0
       /\ \/ Counts(game.snakes[i].body, game.snakes[i].head) = DOUBLE_STACK
          \/ game.snakes[i].body[1] # game.snakes[i].head)
    => (phase = "error" /\ board = NoBoard)

\* C29: for a board constructed from an input game of logical width w with
\* w*w <= BOARD_CAPACITY (including w smaller than sqrt(BOARD_CAPACITY)),
\* get_all_hazards_as_positions returns exactly the set of hazard positions
\* of the input game, each once (as get_all_food_as_positions returns the
\* food positions).
C29_HazardPositionsAreInputHazards ==
  phase = "board" =>
    /\ Range(get_all_hazards_as_positions(board)) = game.hazards
    /\ Len(get_all_hazards_as_positions(board)) = Cardinality(game.hazards)


(***************************************************************************)
(* Claims about the steps (Spec).                                          *)
(***************************************************************************)
\* C2: on a wrapped board of logical width w with no food, no hazards and
\* one snake, after r consecutive steps of snake 0 with the same move d
\* (r < start health, the snake alive), its head is at
\* ((start_x + r*dx) mod w, (start_y + r*dy) mod w) and its health is
\* start_health - r; after w steps the head is back at its start.
C2_RolloutHeadAndHealth ==
  (/\ phase = "board"
   /\ turn >= 1
   /\ Len(game.snakes) = 1
   /\ game.food = {} /\ game.hazards = {}
   /\ turn < game.snakes[1].health
   /\ \A i \in 1..Len(hist) : hist[i].combo = << <<0, hist[1].combo[1][2]>> >>
   /\ board.healths[0] > 0)
    => LET d == to_vector(hist[1].combo[1][2])
           w == game.width
           start == game.snakes[1].head
       IN  /\ get_head_as_position(board, 0)
                = Pos((start.x + turn * d.x) % w, (start.y + turn * d.y) % w)
           /\ board.healths[0] = game.snakes[1].health - turn
           /\ turn = w => get_head_as_position(board, 0) = start

C4_HeadToHead ==
  (phase = "board" /\ turn >= 1) =>
    LET landing(i) == as_wrapped_cell_index(
                        prev, add_vec(get_head_as_position(prev, moves[i][1]),
                                      to_vector(moves[i][2]))).idx
        on(i) == {j \in 1..Len(moves) : landing(j) = landing(i)}
        longest(i) == \A j \in on(i) \ {i} :
                        prev.lengths[moves[i][1]] > prev.lengths[moves[j][1]]
    IN  \A i \in 1..Len(moves) :
          Cardinality(on(i)) >= 2 =>
            IF longest(i)
              THEN ~is_dead(evaluate_move(prev, moves[i][1], moves[i][2])) =>
                     /\ board.healths[moves[i][1]] > 0
                     /\ board.heads[moves[i][1]] = landing(i)
                     /\ ~is_food(get_cell(prev, landing(i))) =>
                          board.lengths[moves[i][1]] = prev.lengths[moves[i][1]]
              ELSE /\ board.healths[moves[i][1]] = 0
                   /\ board.lengths[moves[i][1]] = 0

\* three new heads on one free cell, the first snake longer than the two others
C4_Witness ==
  /\ phase = "board"
  /\ turn = 1
  /\ Len(moves) = 3
  /\ prev.lengths[0] = 4 /\ prev.lengths[1] = 3 /\ prev.lengths[2] = 3
  /\ board.healths[0] > 0 /\ board.healths[1] = 0 /\ board.healths[2] = 0
  /\ board.lengths[0] = 4
  /\ \A s \in {1, 2} :
       as_wrapped_cell_index(prev, add_vec(get_head_as_position(prev, s),
                                           to_vector(moves[s + 1][2]))).idx = board.heads[0]

\* C5: for every snake that moves in a step, the new health is 100 if the
\* new head cell is food, otherwise the old health minus 1 minus
\* hazard_damage on a hazard; the subtraction does not wrap in the 8-bit
\* field: when the result is <= 0 the snake is dead after the step with
\* healths[s] = 0 and its cells cleared.
C5_HealthAccounting ==
  (phase = "board" /\ turn >= 1) =>
    \A i \in 1..Len(moves) :
      LET s == moves[i][1]
          c == get_cell(prev, as_wrapped_cell_index(
                                prev, add_vec(get_head_as_position(prev, s),
                                              to_vector(moves[i][2]))).idx)
          expected == IF is_food(c) THEN 100
                      ELSE prev.healths[s] - 1 - (IF is_hazard(c) THEN prev.hazard_damage ELSE 0)
      IN  /\ board.healths[s] > 0 => board.healths[s] = expected
          /\ expected <= 0 =>
               /\ board.healths[s] = 0
               /\ \A ci \in CellIds : get_snake_id_at(board, ci) # s

\* a snake of health 2 that moved onto a hazard
C5_Witness ==
  /\ phase = "board"
  /\ turn = 1
  /\ prev.healths[0] = 2
  /\ is_hazard(get_cell(prev, as_wrapped_cell_index(
                                prev, add_vec(get_head_as_position(prev, 0),
                                              to_vector(moves[1][2]))).idx))
  /\ board.healths[0] = 0
  /\ \A ci \in CellIds : get_snake_id_at(board, ci) # 0


C12_IsOver ==
  phase = "board" =>
    (is_over(board) <=>
       \/ board.healths[0] = 0
       \/ \A s, t \in SnakeIds : (board.healths[s] # 0 /\ board.healths[t] # 0) => s = t)

\* after a step slot 0 is dead, two other snakes are alive, the game is over
C12_Witness ==
  /\ phase = "board"
  /\ turn >= 1
  /\ prev.healths[0] > 0
  /\ board.healths[0] = 0
  /\ board.healths[1] # 0 /\ board.healths[2] # 0
  /\ is_over(board)

\* C13: for every board, get_winner() returns the lowest-numbered slot with
\* non-zero health when is_over() is true and at least one snake is alive,
\* and none when the game is not over or when no snake is alive; when slot 0
\* is dead and several other snakes are alive it is the lowest alive slot.
C13_GetWinner ==
  phase = "board" =>
    LET alive == {s \in SnakeIds : board.healths[s] # 0}
    IN  IF is_over(board) /\ alive # {}
          THEN /\ get_winner(board) \in alive
               /\ \A s \in alive : get_winner(board) <= s
          ELSE get_winner(board) = None

\* slot 0 has died in a step beside two alive snakes: the winner is slot 1
C13_Witness ==
  /\ phase = "board"
  /\ turn >= 1
  /\ board.healths[0] = 0
  /\ alive_snake_count(board) = 2
  /\ get_winner(board) = 1


\* C15 as stated: for every alive snake on every reachable board, the
\* sequence returned by get_snake_body_vec is ordered from tail to head: its
\* first element is the snake's tail cell and its last element is the
\* snake's head cell.
C15_BodyVecTailToHead ==
  phase = "board" =>
    \A s \in SnakeIds :
      board.healths[s] > 0 =>
        LET body == get_snake_body_vec(board, s)
        IN  /\ body[1] = get_tail_position(get_cell(board, board.heads[s]), board.heads[s])
            /\ body[Len(body)] = board.heads[s]

\* C15, amended: for every alive snake on every reachable board, the
\* sequence returned by get_snake_body_vec is ordered from head to tail: its
\* first element is the snake's head cell, its last element is the snake's
\* tail cell, and every element is the cell of the element after it (a
\* stacked cell) or the cell that element's link points to.
C15_BodyVecHeadToTail ==
  phase = "board" =>
    \A s \in SnakeIds :
      board.healths[s] > 0 =>
        LET body == get_snake_body_vec(board, s)
        IN  /\ body[1] = board.heads[s]
            /\ body[Len(body)]
                 = get_tail_position(get_cell(board, board.heads[s]), board.heads[s])
            /\ \A k \in 1..(Len(body) - 1) :
                 \/ body[k] = body[k + 1] /\ is_stacked(get_cell(board, body[k]))
                 \/ body[k] = get_next_index(get_cell(board, body[k + 1]))

\* after two steps a snake of three distinct cells: the sequence starts at
\* the head and ends at the tail, a different cell
C15_Witness ==
  /\ phase = "board"
  /\ turn = 2
  /\ board.healths[0] > 0
  /\ LET body == get_snake_body_vec(board, 0)
     IN  /\ Len(body) = 3
         /\ Cardinality(Range(body)) = 3
         /\ body[1] = board.heads[0]
         /\ body[3] = get_cell(board, board.heads[0]).idx
         /\ body[3] # body[1]


\* C16: a snake that moves its head onto its own tail cell in a step in
\* which that tail vacates (the snake is not growing and the tail cell is
\* not stacked) does not die from that move: the move is not flagged
\* individually fatal by the driver, and the snake is alive in the
\* successor (unless its health runs out or it loses a head-to-head there).
C16_OwnVacatingTailIsSafe ==
  (phase = "board" /\ turn >= 1) =>
    \A i \in 1..Len(moves) :
      LET s == moves[i][1]
          landing(j) == as_wrapped_cell_index(
                          prev, add_vec(get_head_as_position(prev, moves[j][1]),
                                        to_vector(moves[j][2]))).idx
          own_tail == get_tail_position(get_cell(prev, prev.heads[s]), prev.heads[s])
          health == prev.healths[s] - 1
                      - (IF is_hazard(get_cell(prev, own_tail)) THEN prev.hazard_damage ELSE 0)
      IN  (landing(i) = own_tail /\ ~is_stacked(get_cell(prev, own_tail)) /\ health > 0) =>
            /\ ~is_dead(evaluate_move(prev, s, moves[i][2]))
            /\ (\A j \in 1..Len(moves) : j # i => landing(j) # own_tail) =>
                 /\ board.healths[s] = health
                 /\ board.heads[s] = own_tail
                 /\ board.lengths[s] = prev.lengths[s]
                 /\ Len(get_snake_body_vec(board, s)) = prev.lengths[s]

\* a snake of three unstacked cells has moved its head onto its tail cell
\* and is alive with its head there
C16_Witness ==
  /\ phase = "board"
  /\ turn >= 1
  /\ prev.healths[0] > 0
  /\ prev.lengths[0] = 3
  /\ ~is_stacked(get_cell(prev, get_cell(prev, prev.heads[0]).idx))
  /\ get_cell(prev, prev.heads[0]).idx # prev.heads[0]
  /\ board.heads[0] = get_cell(prev, prev.heads[0]).idx
  /\ board.healths[0] > 0
  /\ board.lengths[0] = 3

\* C17: a snake that moves its head onto its own tail cell in a step in
\* which its tail does not vacate because of eating (growth keeps the tail
\* in place as a stacked cell) dies in that step.
C17_OwnStackedTailIsFatal ==
  (phase = "board" /\ turn >= 1) =>
    \A i \in 1..Len(moves) :
      LET s == moves[i][1]
          landing == as_wrapped_cell_index(
                       prev, add_vec(get_head_as_position(prev, s), to_vector(moves[i][2]))).idx
          own_tail == get_tail_position(get_cell(prev, prev.heads[s]), prev.heads[s])
      IN  (landing = own_tail /\ is_stacked(get_cell(prev, own_tail))) =>
            /\ is_dead(evaluate_move(prev, s, moves[i][2]))
            /\ board.healths[s] = 0
            /\ board.lengths[s] = 0
            /\ \A ci \in CellIds : get_snake_id_at(board, ci) # s

\* a snake ate in the first step, and in the second step moved its head
\* onto its tail cell, DoubleStacked since the meal: it is dead
C17_Witness ==
  /\ phase = "board"
  /\ turn = 2
  /\ 0 \in hist[1].fed
  /\ prev.healths[0] = MaxHealth
  /\ is_double_stacked_piece(get_cell(prev, get_cell(prev, prev.heads[0]).idx))
  /\ as_wrapped_cell_index(prev, add_vec(get_head_as_position(prev, 0),
                                         to_vector(moves[1][2]))).idx
       = get_cell(prev, prev.heads[0]).idx
  /\ board.healths[0] = 0


\* C18: in wrapped topology, for a board of any logical width w with
\* w*w <= BOARD_CAPACITY (also w smaller than the side sqrt(BOARD_CAPACITY)
\* of the board type), as_wrapped_cell_index maps a position one step off
\* any of the four edges to the cell index construction uses for the cell on
\* the opposite edge of the same row or column, and an on-board position to
\* the cell index construction uses for it.
C18_WrappedIndexIsConstructionIndex ==
  phase = "board" =>
    \A p \in Grid(board.actual_width), m \in Moves :
      as_wrapped_cell_index(board, add_vec(p, to_vector(m))).idx
        = CellIndexNew(WrapStep(p, m, board.actual_width), game.width % 256)


(***************************************************************************)
(* Claims about the driver (SpecDriver).                                   *)
(***************************************************************************)
\* C7: simulate_with_moves, given a non-empty candidate list for every
\* listed snake, uses for each snake exactly its candidates that are not
\* individually fatal, in their original relative order, or its first
\* candidate when all are individually fatal; the returned list is never
\* empty and has as many entries as the product of the sizes of these lists.
C7_FilteredCandidatesOrFirst ==
  phase = "returned" =>
    LET n == Len(query)
        Alive(i) == LET Test(mv) == ~is_dead(evaluate_move(board, query[i][1], mv))
                    IN  SelectSeq(query[i][2], Test)
        L(i) == IF Alive(i) = <<>> THEN <<query[i][2][1]>> ELSE Alive(i)
        first(i, mv) == CHOOSE k \in 1..Len(ret) :
                          /\ ret[k][1][i][2] = mv
                          /\ \A j \in 1..(k - 1) : ret[j][1][i][2] # mv
        size[i \in 1..(n + 1)] == IF i = n + 1 THEN 1 ELSE Len(L(i)) * size[i + 1]
    IN  /\ Len(ret) >= 1
        /\ Len(ret) = size[1]
        /\ \A i \in 1..n :
             /\ {ret[k][1][i][2] : k \in 1..Len(ret)} = Range(L(i))
             /\ \A x, y \in 1..Len(L(i)) : x < y => first(i, L(i)[x]) < first(i, L(i)[y])

\* two snakes: every candidate of one is fatal, some but not all of the other's
C7_Witness ==
  /\ phase = "returned"
  /\ Len(query) = 2
  /\ \E i, j \in 1..2 :
       /\ i # j
       /\ \A x \in 1..Len(query[i][2]) :
            is_dead(evaluate_move(board, query[i][1], query[i][2][x]))
       /\ \E x, y \in 1..Len(query[j][2]) :
            /\ is_dead(evaluate_move(board, query[j][1], query[j][2][x]))
            /\ ~is_dead(evaluate_move(board, query[j][1], query[j][2][y]))
       /\ Len(ret) = Cardinality({x \in 1..Len(query[j][2]) :
                                    ~is_dead(evaluate_move(board, query[j][1], query[j][2][x]))})

\* C8: the successors are ordered as the Cartesian product of the per-snake
\* filtered lists in the caller's snake order, the last snake's move varying
\* fastest; every combination has one move per supplied snake, in the
\* supplied order, and is paired with the board obtained by applying
\* exactly that combination to the input board.
C8_ProductOrderLastFastest ==
  phase = "returned" =>
    LET n == Len(query)
        Alive(i) == LET Test(mv) == ~is_dead(evaluate_move(board, query[i][1], mv))
                    IN  SelectSeq(query[i][2], Test)
        L(i) == IF Alive(i) = <<>> THEN <<query[i][2][1]>> ELSE Alive(i)
        size[i \in 1..(n + 1)] == IF i = n + 1 THEN 1 ELSE Len(L(i)) * size[i + 1]
        combination(k) ==
          [i \in 1..n |-> <<query[i][1], L(i)[(((k - 1) \div size[i + 1]) % Len(L(i))) + 1]>>]
    IN  \A k \in 1..Len(ret) :
          /\ ret[k][1] = combination(k)
          /\ ret[k][2] = evaluate_moves_with_state(board, combination(k),
                                                   generate_state(board, query))

\* two snakes handed over in reverse slot order, two moves or more each
C8_Witness ==
  /\ phase = "returned"
  /\ Len(query) = 2
  /\ query[1][1] > query[2][1]
  /\ Len(ret) >= 4
  /\ ret[1][1][1] = ret[2][1][1]
  /\ ret[1][1][2] # ret[2][1][2]
  /\ ret[1][2] # ret[2][2]

\* the call that hands over exactly the combination m: one candidate per snake
only_combination(m) == [i \in 1..Len(m) |-> <<m[i][1], <<m[i][2]>> >>]

\* C20: simulate_with_moves leaves the input board unchanged (cells,
\* healths, heads, lengths, actual_width, hazard_damage all equal before and
\* after the call), and each returned successor is computed from the input
\* board only: the successor of a combination is the board a call with
\* that combination alone returns, whatever was enumerated before it.
C20_InputBoardUnchanged ==
  [][phase' = "returned" =>
       /\ board' = board
       /\ \A k \in 1..Len(ret') :
            ret'[k][2] = simulate_with_moves(board, only_combination(ret'[k][1])).value[1][2]]_vars

\* a call on a board that has made one step returns three or more
\* successors, not all equal, none of them the input board
C20_Witness ==
  /\ phase = "returned"
  /\ turn = 1
  /\ Len(ret) >= 3
  /\ \E j, k \in 1..Len(ret) : ret[j][2] # ret[k][2]
  /\ \A k \in 1..Len(ret) :
       /\ ret[k][2] # board
       /\ ret[k][2] = simulate_with_moves(board, only_combination(ret[k][1])).value[1][2]

(***************************************************************************)
(* Claims about the cells of the boards of a game (Spec).                  *)
(***************************************************************************)
\* C22: on every reachable board, for every alive snake s, the cell at
\* heads[s] has kind SnakeHead, or TripleStacked when the snake is stacked
\* three-deep on one cell, and carries snake id s.
C22_HeadCellIsHeadOfItsSnake ==
  phase = "board" =>
    \A s \in SnakeIds :
      board.healths[s] > 0 =>
        LET c == get_cell(board, board.heads[s])
        IN  /\ Kind(c) = SNAKE_HEAD \/ Kind(c) = TRIPLE_STACKED_PIECE
            /\ Kind(c) = TRIPLE_STACKED_PIECE <=>
                  get_snake_body_vec(board, s)
                    = <<board.heads[s], board.heads[s], board.heads[s]>>
            /\ c.id = s

\* after a step: a snake that started as a triple stack has moved its head
\* to another cell, beside an alive snake of another slot
C22_Witness ==
  /\ phase = "board"
  /\ turn = 1
  /\ \E s, t \in SnakeIds :
       /\ s # t
       /\ board.healths[s] > 0 /\ board.healths[t] > 0
       /\ is_triple_stacked_piece(get_cell(prev, prev.heads[s]))
       /\ board.heads[s] # prev.heads[s]
       /\ Kind(get_cell(board, board.heads[s])) = SNAKE_HEAD
       /\ get_cell(board, board.heads[s]).id = s
       /\ get_cell(board, board.heads[t]).id = t

\* C24: after any step, every SnakeBody or DoubleStacked cell's link index
\* points to a cell of kind SnakeHead, SnakeBody or DoubleStacked belonging
\* to the same snake.
C24_BodyLinksStayInTheSnake ==
  (phase = "board" /\ turn >= 1) =>
    \A ci \in CellIds :
      is_body(get_cell(board, ci)) =>
        LET next == get_cell(board, ci).idx
        IN  /\ InBounds(next)
            /\ Kind(get_cell(board, next))
                 \in {SNAKE_HEAD, SNAKE_BODY_PIECE, DOUBLE_STACKED_PIECE}
            /\ get_cell(board, next).id = get_cell(board, ci).id

\* after two steps with a meal in the second: a DoubleStacked tail linking to
\* a SnakeBody cell linking to the head of the same snake
C24_Witness ==
  /\ phase = "board"
  /\ turn = 2
  /\ \E s \in SnakeIds, ci \in CellIds :
       /\ board.healths[s] > 0
       /\ s \in hist[2].fed
       /\ is_double_stacked_piece(get_cell(board, ci))
       /\ get_cell(board, ci).id = s
       /\ is_snake_body_piece(get_cell(board, get_cell(board, ci).idx))
       /\ get_cell(board, get_cell(board, get_cell(board, ci).idx).idx).id = s

cells_of(b, s) == {ci \in CellIds : get_snake_id_at(b, ci) = s}

\* snake s is alive on b and stacked three-deep on its head cell
spawned(b, s) ==
  b.healths[s] > 0 /\ is_triple_stacked_piece(get_cell(b, b.heads[s]))

\* the shape of snake s on b0 (spawned), on b1 after a first non-eating
\* move and on b2 after a second
spawn_shape(b0, s) ==
  /\ b0.lengths[s] = 3
  /\ cells_of(b0, s) = {b0.heads[s]}
first_move_shape(b0, b1, s) ==
  /\ b1.lengths[s] = 3
  /\ b1.heads[s] # b0.heads[s]
  /\ cells_of(b1, s) = {b1.heads[s], b0.heads[s]}
  /\ Kind(get_cell(b1, b1.heads[s])) = SNAKE_HEAD
  /\ is_double_stacked_piece(get_cell(b1, b0.heads[s]))
second_move_shape(b0, b1, b2, s) ==
  /\ b2.lengths[s] = 3
  /\ Cardinality(cells_of(b2, s)) = 3
  /\ cells_of(b2, s) = {b2.heads[s], b1.heads[s], b0.heads[s]}
  /\ Kind(get_cell(b2, b2.heads[s])) = SNAKE_HEAD
  /\ is_snake_body_piece(get_cell(b2, b1.heads[s]))
  /\ is_snake_body_piece(get_cell(b2, b0.heads[s]))

C26_FoodOfDeadEaterIsRemoved ==
  (phase = "board" /\ turn >= 1) =>
    \A i \in 1..Len(moves) :
      (/\ is_food(get_cell(prev, evaluate_move(prev, moves[i][1], moves[i][2]).ci))
       /\ board.healths[moves[i][1]] = 0)
        => ~is_food(get_cell(board, evaluate_move(prev, moves[i][1], moves[i][2]).ci))

\* two snakes of equal length moved onto the same food: both are dead and
\* the cell is Empty
C26_Witness ==
  /\ phase = "board"
  /\ turn >= 1
  /\ \E i, j \in 1..Len(moves) :
       /\ i # j
       /\ evaluate_move(prev, moves[i][1], moves[i][2]).ci
            = evaluate_move(prev, moves[j][1], moves[j][2]).ci
       /\ evaluate_move(prev, moves[i][1], moves[i][2]).ate
       /\ board.healths[moves[i][1]] = 0
       /\ board.healths[moves[j][1]] = 0
       /\ is_empty(get_cell(board, evaluate_move(prev, moves[i][1], moves[i][2]).ci))

\* C27: once healths[s] reaches 0 it remains 0 in every later state
\* produced by stepping that board, and once is_over() is true it remains
\* true.
C27_DeadStaysDead ==
  [][(phase = "board" /\ phase' = "board") =>
       /\ \A s \in SnakeIds : board.healths[s] = 0 => board'.healths[s] = 0
       /\ is_over(board) => is_over(board')]_vars

\* a snake of the game was dead before the last step and is dead after it,
\* the game was over and is over, and two other snakes played the step
C27_Witness ==
  /\ phase = "board"
  /\ turn = 2
  /\ \E s \in SnakeIds :
       /\ s < Len(game.snakes)
       /\ prev.healths[s] = 0
       /\ board.healths[s] = 0
  /\ Len(moves) = 2
  /\ is_over(prev)
  /\ is_over(board)

\* the walk w of snake s on b ended, at the head, within lengths[s] cells
\* of the snake
walk_ends_at_head(b, s, w) ==
  /\ ~w.cycle
  /\ ~w.oob
  /\ w.cells # <<>>
  /\ w.cells[Len(w.cells)] = b.heads[s]
  /\ Len(w.cells) <= b.lengths[s]
  /\ \A k \in 1..Len(w.cells) : get_snake_id_at(b, w.cells[k]) = s

\* C31: on every reachable board and for every alive snake, the link walk
\* that starts at the snake's tail and follows get_next_index (the loop of
\* get_snake_body_vec and of kill_and_remove) terminates: the chain
\* contains no cycle, reaches the snake's head cell, and visits at most
\* lengths[s] cells, all owned by that snake.
C31_LinkWalkTerminates ==
  phase = "board" =>
    \A s \in SnakeIds :
      board.healths[s] > 0 =>
        walk_ends_at_head(board, s, link_walk(board, tail_of(board, s), <<>>))

\* after a step, beside another alive snake: a snake of length 4 whose walk
\* visits three cells, the DoubleStacked tail first and the head last
C31_Witness ==
  /\ phase = "board"
  /\ turn >= 1
  /\ \E s, t \in SnakeIds :
       /\ s # t
       /\ board.healths[s] > 0 /\ board.healths[t] > 0
       /\ board.lengths[s] = 4
       /\ Len(link_walk(board, tail_of(board, s), <<>>).cells) = 3
       /\ is_double_stacked_piece(
            get_cell(board, link_walk(board, tail_of(board, s), <<>>).cells[1]))
       /\ link_walk(board, tail_of(board, s), <<>>).cells[3] = board.heads[s]

====
